---- MODULE Spec2Model ----
(***************************************************************************)
(* Network configuration backup tool (task-3/main.py, task-1/main.py).     *)
(*                                                                         *)
(* File names, timestamps and commit messages are strings in the program;  *)
(* here a string is a sequence of tokens (each token a TLA+ string), so    *)
(* that formatting, concatenation and glob matching are computed on the    *)
(* text.  A parsed configuration is a mapping, written as a set of         *)
(* <<key, value>> pairs; the empty mapping is {}.  Python's None is the    *)
(* record NoResult for a configuration and the empty path for a file.      *)
(***************************************************************************)
EXTENDS Naturals, Sequences, FiniteSets

\* ------------------------------------------------------------- bounds
MaxClock == 1      \* the clock runs over 0 .. MaxClock seconds
MaxRuns  == 2      \* invocations of task-3 main and of the task-1 smoke test
DayLen   == 2      \* seconds per day of the modelled calendar

\* ------------------------------------------------------------- text
Digit == <<"0", "1", "2", "3", "4", "5", "6", "7", "8", "9">>

ToStr(n) == Digit[n + 1]

\* strftime("%Y%m%d_%H%M%S"): the date, an underscore, the time of day
strftime(t) == <<ToStr(t \div DayLen), "_", ToStr(t % DayLen)>>

\* f"{now:%Y-%m-%d %H:%M:%S}" of main and of the smoke test
strftime_msg(t) == <<ToStr(t \div DayLen), " ", ToStr(t % DayLen)>>

R1 == <<"R1">>

R1_b == <<"R1", "_", "b">>

DeviceNames == {R1, R1_b}

\* the inventories a run may be given (rows reduced to their Name column)
Inventories == {<<R1>>, <<R1, R1>>, <<R1, R1_b>>}

NoPath == <<>>

\* backup_dir / f"{device_name}_{timestamp}.json"
filename(device_name, ts) == device_name \o <<"_">> \o ts \o <<".json">>

\* Path.glob(f"{device_name}_*.json") on one name: the literal prefix
\* device_name + "_", anything, the literal suffix ".json"
glob_match(name, device_name) ==
    /\ Len(name) >= Len(device_name) + 2
    /\ SubSeq(name, 1, Len(device_name) + 1) = device_name \o <<"_">>
    /\ name[Len(name)] = ".json"

\* ------------------------------------------------------------- configs
Configs == { {}, {<<"hostname", "A">>}, {<<"hostname", "B">>} }

NoResult == [some |-> FALSE, config |-> {}]

Some(c) == [some |-> TRUE, config |-> c]

\* what the device does in one fetch
FetchOutcomes ==
    [status : {"connect_failed", "parse_failed"}, config : {{}}]
        \cup [status : {"ok"}, config : Configs]

\* truth value of a fetch result in "if config:"
truthy(r) == r.some /\ r.config # {}

Keys(c) == {p[1] : p \in c}

Val(c, k) == CHOOSE v \in {p[2] : p \in c} : <<k, v>> \in c

\* genie Diff(old, new).findDiff(); .diffs as a set of (kind, key) entries
Diff(old, new) ==
    {<<"-", k>> : k \in Keys(old) \ Keys(new)}
        \cup {<<"+", k>> : k \in Keys(new) \ Keys(old)}
        \cup {<<"~", k>> : k \in {j \in Keys(old) \cap Keys(new) : Val(old, j) # Val(new, j)}}

\* ------------------------------------------------------------- state
VARIABLES
    inventory,     \* the inventory file's rows
    now,           \* the clock, in seconds
    files,         \* snapshot files of the backup directory
    test_file,     \* test_backup.txt of the smoke test (<<>> when absent)
    repo,          \* the backup directory's git repository
    pc,            \* position of main
    args,          \* parsed flags of the run
    testbed,       \* device names of the loaded testbed, in iteration order
    timestamp,     \* backup_config's run-wide timestamp
    idx,           \* loop index of the stage in progress
    backup_files,  \* backup_config's list of written paths
    fetched,       \* this run's fetch results, one per attempted device
    outcomes,      \* what each attempted device did in this run
    writes,        \* paths actually written in this run
    conn,          \* devices with an open connection
    commitResult,  \* how the last commit_backup call ended
    commitMsg,     \* the message given to the last commit_backup call
    reported,      \* compare_configs reports of this run
    trace,         \* stages run so far in this run
    nruns          \* programs started: runs of main and smoke tests

vars == <<inventory, now, files, test_file, repo, pc, args, testbed, timestamp,
          idx, backup_files, fetched, outcomes, writes, conn, commitResult,
          commitMsg, reported, trace, nruns>>

runVars == <<args, testbed, timestamp, idx, backup_files, fetched, outcomes,
             writes, conn, reported, trace>>

Stopped == {"idle", "done", "crashed"}

Event(stage, dev) == [stage |-> stage, dev |-> dev]


\* ------------------------------------------------------------- functions
RECURSIVE generate_testbed(_)
\* one testbed entry per inventory Name, in order of first occurrence
generate_testbed(inv) ==
    IF inv = <<>> THEN <<>>
    ELSE LET rest == generate_testbed(SubSeq(inv, 1, Len(inv) - 1))
             name == inv[Len(inv)]
         IN  IF \E i \in 1..Len(rest) : rest[i] = name THEN rest
             ELSE Append(rest, name)

\* connect, parse, disconnect, return; any exception: print, return None.
\* The result is the returned value and the connections left open.
fetch_running_config(c, device_name, o) ==
    CASE o.status = "connect_failed" -> [result |-> NoResult, conn |-> c]
      [] o.status = "parse_failed"   -> [result |-> NoResult,
                                         conn |-> c \cup {device_name}]
      [] OTHER                       -> [result |-> Some(o.config), conn |-> c]

WritesOf(fs, name) ==
    IF \E f \in fs : f.name = name
    THEN (CHOOSE f \in fs : f.name = name).nwrites
    ELSE 0

\* open(filename, 'w'); json.dump(config_data, f): creates or replaces
write_file(fs, name, data, t) ==
    {f \in fs : f.name # name}
        \cup {[name |-> name, data |-> data, mtime |-> t,
               nwrites |-> WritesOf(fs, name) + 1]}

\* json.load(open(path))
load(fs, path) == (CHOOSE f \in fs : f.name = path).data

\* The possible results <<latest, previous>> of get_latest_backups: the
\* glob's order is the file system's, so files of equal mtime may come out
\* of the sort in either order.
get_latest_backups(fs, device_name) ==
    LET backups == {f \in fs : glob_match(f.name, device_name)}
    IN  IF Cardinality(backups) < 2 THEN {<<NoPath, NoPath>>}
        ELSE {<<p[1].name, p[2].name>> :
                p \in {q \in backups \X backups :
                         /\ q[1] # q[2]
                         /\ q[1].mtime >= q[2].mtime
                         /\ \A g \in backups \ {q[1], q[2]} :
                                g.mtime <= q[2].mtime}}

Report(device_name, kind, pair, diffs) ==
    [device |-> device_name, kind |-> kind, latest |-> pair[1],
     previous |-> pair[2], diffs |-> diffs]

\* compare_configs diffing the whole snapshot instead of its config field
compare_configs_whole(fs, device_name, pair) ==
    IF pair[1] = NoPath \/ pair[2] = NoPath
    THEN Report(device_name, "not_enough", pair, {})
    ELSE LET old_data == load(fs, pair[2])
             new_data == load(fs, pair[1])
             diffs == Diff(old_data.config, new_data.config)
                        \cup (IF old_data.timestamp # new_data.timestamp
                              THEN {<<"~", "timestamp">>} ELSE {})
                        \cup (IF old_data.device # new_data.device
                              THEN {<<"~", "device">>} ELSE {})
         IN  Report(device_name,
                    IF diffs # {} THEN "differences" ELSE "no_changes",
                    pair, diffs)

\* compare_configs once get_latest_backups has returned pair
compare_configs(fs, device_name, pair) ==
    IF pair[1] = NoPath \/ pair[2] = NoPath
    THEN Report(device_name, "not_enough", pair, {})
    ELSE LET old_data == load(fs, pair[2])
             new_data == load(fs, pair[1])
             diffs == Diff(old_data.config, new_data.config)
         IN  Report(device_name,
                    IF diffs # {} THEN "differences" ELSE "no_changes",
                    pair, diffs)

\* what git can do wrong in one commit_backup call
GitFaults == {"none", "open_fails", "init_fails", "add_fails", "commit_fails"}

Tree(fs, tf) ==
    [snapshots |-> {[name |-> f.name, data |-> f.data] : f \in fs},
     test_file |-> tf]

GitResult(r, result) == [repo |-> r, result |-> result]

Initialized(r) == [r EXCEPT !.isRepo = TRUE, !.inits = r.inits + 1]

\* commit_backup that makes no commit when the tree is unchanged
commit_backup_skip_unchanged(r, tree, msg, gf) ==
    IF gf = "open_fails" THEN GitResult(r, "reported")
    ELSE IF ~r.isRepo /\ gf = "init_fails" THEN GitResult(r, "raised")
    ELSE LET opened == IF r.isRepo THEN r ELSE Initialized(r)
         IN  IF gf \in {"add_fails", "commit_fails"}
             THEN GitResult(opened, "raised")
             ELSE IF opened.history # <<>>
                       /\ opened.history[Len(opened.history)].tree = tree
             THEN GitResult(opened, "committed")
             ELSE GitResult([opened EXCEPT !.history =
                               Append(@, [message |-> msg, tree |-> tree])],
                            "committed")

\* commit_backup: "reported" is the printed error and plain return,
\* "raised" an exception leaving the function, "committed" its last line
commit_backup(r, tree, msg, gf) ==
    IF gf = "open_fails" THEN GitResult(r, "reported")
    ELSE IF ~r.isRepo /\ gf = "init_fails" THEN GitResult(r, "raised")
    ELSE LET opened == IF r.isRepo THEN r ELSE Initialized(r)
         IN  IF gf \in {"add_fails", "commit_fails"}
             THEN GitResult(opened, "raised")
             ELSE GitResult([opened EXCEPT !.history =
                               Append(@, [message |-> msg, tree |-> tree])],
                            "committed")

\* "if not args.no_commit and backup_files"
commit_enabled(a, bf) == ~a.no_commit /\ bf # <<>>

\* the diff stage guarded by the flag alone
compare_enabled_flag_only(a, bf) == ~a.no_compare

\* "if not args.no_compare and backup_files"
compare_enabled(a, bf) == ~a.no_compare /\ bf # <<>>

\* ------------------------------------------------------------- actions
Init ==
    /\ inventory \in Inventories
    /\ now = 0
    /\ files = {}
    /\ test_file = <<>>
    /\ repo = [isRepo |-> FALSE, history |-> <<>>, inits |-> 0]
    /\ pc = "idle"
    /\ args = [no_commit |-> FALSE, no_compare |-> FALSE]
    /\ testbed = <<>>
    /\ timestamp = <<>>
    /\ idx = 1
    /\ backup_files = <<>>
    /\ fetched = <<>>
    /\ outcomes = <<>>
    /\ writes = <<>>
    /\ conn = {}
    /\ commitResult = "none"
    /\ commitMsg = <<>>
    /\ reported = <<>>
    /\ trace = <<>>
    /\ nruns = 0

\* a second passes
Tick ==
    /\ now < MaxClock
    /\ now' = now + 1
    /\ UNCHANGED <<inventory, files, test_file, repo, pc, commitResult,
                   commitMsg, nruns>>
    /\ UNCHANGED runVars

\* main up to the first device: parse_args, load_testbed(generate_testbed),
\* and backup_config's mkdir, empty list and timestamp
MainStart(no_commit, no_compare) ==
    /\ pc \in Stopped
    /\ nruns < MaxRuns
    /\ args' = [no_commit |-> no_commit, no_compare |-> no_compare]
    /\ testbed' = generate_testbed(inventory)
    /\ timestamp' = strftime(now)
    /\ idx' = 1
    /\ backup_files' = <<>>
    /\ fetched' = <<>>
    /\ outcomes' = <<>>
    /\ writes' = <<>>
    /\ conn' = {}
    /\ commitResult' = "none"
    /\ commitMsg' = <<>>
    /\ reported' = <<>>
    /\ trace' = <<Event("build", <<>>)>>
    /\ nruns' = nruns + 1
    /\ pc' = "backup"
    /\ UNCHANGED <<inventory, now, files, test_file, repo>>

\* one iteration of backup_config's loop
BackupDevice(o) ==
    /\ pc = "backup"
    /\ idx <= Len(testbed)
    /\ LET device_name == testbed[idx]
           got == fetch_running_config(conn, device_name, o)
           config == got.result
           name == filename(device_name, timestamp)
           config_data == [device |-> device_name, timestamp |-> timestamp,
                           config |-> config.config]
       IN  /\ conn' = got.conn
           /\ fetched' = Append(fetched, config)
           /\ outcomes' = Append(outcomes, o.status)
           /\ IF truthy(config)
              THEN /\ files' = write_file(files, name, config_data, now)
                   /\ backup_files' = Append(backup_files, name)
                   /\ writes' = Append(writes, name)
                   /\ trace' = Append(trace, Event("write", device_name))
              ELSE UNCHANGED <<files, backup_files, writes, trace>>
    /\ idx' = idx + 1
    /\ UNCHANGED <<inventory, now, test_file, repo, pc, args, testbed,
                   timestamp, commitResult, commitMsg, reported, nruns>>

\* backup_config returns its list to main
BackupReturn ==
    /\ pc = "backup"
    /\ idx > Len(testbed)
    /\ pc' = "commit"
    /\ idx' = 1
    /\ UNCHANGED <<inventory, now, files, test_file, repo, args, testbed,
                   timestamp, backup_files, fetched, outcomes, writes, conn,
                   commitResult, commitMsg, reported, trace, nruns>>

\* the commit stage when its guard holds
CommitRun(gf) ==
    /\ pc = "commit"
    /\ commit_enabled(args, backup_files)
    /\ LET commit_msg == <<"Backup on">> \o strftime_msg(now)
           done == commit_backup(repo, Tree(files, test_file), commit_msg, gf)
       IN  /\ repo' = done.repo
           /\ commitResult' = done.result
           /\ commitMsg' = commit_msg
           /\ pc' = IF done.result = "raised" THEN "crashed" ELSE "diff"
    /\ trace' = Append(trace, Event("commit", <<>>))
    /\ UNCHANGED <<inventory, now, files, test_file, args, testbed, timestamp,
                   idx, backup_files, fetched, outcomes, writes, conn,
                   reported, nruns>>

\* the commit stage when its guard fails
CommitSkip ==
    /\ pc = "commit"
    /\ ~commit_enabled(args, backup_files)
    /\ pc' = "diff"
    /\ UNCHANGED <<inventory, now, files, test_file, repo, commitResult,
                   commitMsg, nruns>>
    /\ UNCHANGED runVars

\* one iteration of the diff stage's loop
DiffDevice ==
    /\ pc = "diff"
    /\ compare_enabled(args, backup_files)
    /\ idx <= Len(testbed)
    /\ \E pair \in get_latest_backups(files, testbed[idx]) :
          reported' = Append(reported, compare_configs(files, testbed[idx], pair))
    /\ trace' = Append(trace, Event("diff", testbed[idx]))
    /\ idx' = idx + 1
    /\ UNCHANGED <<inventory, now, files, test_file, repo, pc, args, testbed,
                   timestamp, backup_files, fetched, outcomes, writes, conn,
                   commitResult, commitMsg, nruns>>

\* main ends: the diff stage is over or was skipped
MainEnd ==
    /\ pc = "diff"
    /\ ~compare_enabled(args, backup_files) \/ idx > Len(testbed)
    /\ pc' = "done"
    /\ UNCHANGED <<inventory, now, files, test_file, repo, commitResult,
                   commitMsg, nruns>>
    /\ UNCHANGED runVars

\* task-1's __main__: write test_backup.txt, then commit_backup
SmokeTest(gf) ==
    /\ pc \in Stopped
    /\ nruns < MaxRuns
    /\ LET text == <<"Test backup created at">> \o strftime_msg(now)
           commit_msg == <<"Test backup on">> \o strftime_msg(now)
           done == commit_backup(repo, Tree(files, text), commit_msg, gf)
       IN  /\ test_file' = text
           /\ repo' = done.repo
           /\ commitResult' = done.result
           /\ commitMsg' = commit_msg
    /\ nruns' = nruns + 1
    /\ UNCHANGED <<inventory, now, files, pc>>
    /\ UNCHANGED runVars

Next ==
    \/ Tick
    \/ \E nc \in BOOLEAN, ncmp \in BOOLEAN : MainStart(nc, ncmp)
    \/ \E o \in FetchOutcomes : BackupDevice(o)
    \/ BackupReturn
    \/ \E gf \in GitFaults : CommitRun(gf)
    \/ CommitSkip
    \/ DiffDevice
    \/ MainEnd
    \/ \E gf \in GitFaults : SmokeTest(gf)

Spec == Init /\ [][Next]_vars

\* runs on the single-device inventory
InitR1 == Init /\ inventory = <<R1>>

SpecR1 == InitR1 /\ [][Next]_vars


\* ------------------------------------------------------------- claims
PathOf(i) == filename(testbed[i], timestamp)

TimesWritten(name) == Cardinality({j \in 1..Len(writes) : writes[j] = name})

InList(name) == \E j \in 1..Len(backup_files) : backup_files[j] = name

BackupOver == pc \in {"commit", "diff", "done", "crashed"}

\* C1: every device whose fetch returned a parsed config (the empty mapping
\* included) gets exactly one snapshot file {device}_{timestamp}.json written
\* in the run, its path is in the returned list, and the file's config field
\* is the value fetch_running_config returned.
C1_EverySuccessWritten ==
    \A i \in 1..Len(fetched) :
        fetched[i].some =>
            /\ TimesWritten(PathOf(i)) = 1
            /\ InList(PathOf(i))
            /\ \E f \in files : /\ f.name = PathOf(i)
                                /\ f.data.config = fetched[i].config

\* C2: a device whose fetch failed gets no file and no entry of the returned
\* list, every device of the testbed is attempted whatever failed before it,
\* and the returned list holds exactly the paths of the devices whose fetch
\* succeeded.
C2_ListIsExactlySuccesses ==
    /\ \A i \in 1..Len(fetched) :
          ~fetched[i].some => TimesWritten(PathOf(i)) = 0 /\ ~InList(PathOf(i))
    /\ BackupOver =>
          /\ Len(fetched) = Len(testbed)
          /\ {backup_files[j] : j \in 1..Len(backup_files)}
                = {PathOf(i) : i \in {k \in 1..Len(fetched) : fetched[k].some}}

\* C3: no device connection is open once fetch_running_config has returned:
\* not when the next device is attempted, not when backup_config returns.
C3_ConnectionsClosed == conn = {}

SnapshotsOf(device_name) == {f \in files : f.data.device = device_name}

\* C4: with fewer than two snapshot files of device D in the directory
\* get_latest_backups returns (None, None); with two or more it returns two
\* snapshots of D, those of largest and second-largest mtime, latest first.
C4_LatestTwoOfDevice ==
    \A D \in DeviceNames :
        LET snaps == SnapshotsOf(D)
            res == get_latest_backups(files, D)
        IN  IF Cardinality(snaps) < 2
            THEN res = {<<NoPath, NoPath>>}
            ELSE \A p \in res :
                    \E a \in snaps, b \in snaps :
                        /\ a # b /\ a.name = p[1] /\ b.name = p[2]
                        /\ a.mtime >= b.mtime
                        /\ \A g \in snaps \ {a, b} : g.mtime <= b.mtime

IsBuild(e) == e.stage = "build"

IsWrite(e) == e.stage = "write"

IsCommit(e) == e.stage = "commit"

IsDiff(e) == e.stage = "diff"

\* C5: a run of main goes build testbed, write backups, commit, diff per
\* device, in that order and without repeating a stage; it commits iff commit
\* is enabled and the backup list is non-empty, and it diffs every testbed
\* device once iff compare is enabled and the backup list is non-empty.
C5_StagesInOrder ==
    pc \in {"done", "crashed"} =>
        /\ trace = SelectSeq(trace, IsBuild) \o SelectSeq(trace, IsWrite)
                     \o SelectSeq(trace, IsCommit) \o SelectSeq(trace, IsDiff)
        /\ Len(SelectSeq(trace, IsBuild)) = 1
        /\ Len(SelectSeq(trace, IsWrite)) = Len(writes)
        /\ Len(SelectSeq(trace, IsCommit))
              = IF ~args.no_commit /\ backup_files # <<>> THEN 1 ELSE 0
        /\ SelectSeq(trace, IsDiff)
              = IF ~args.no_compare /\ backup_files # <<>>
                THEN [i \in 1..Len(testbed) |-> Event("diff", testbed[i])]
                ELSE <<>>

\* C6: no failure of a git operation leaves commit_backup as an exception:
\* the call never ends "raised", and main never stops short of its end.
C6_CommitFailureContained == commitResult # "raised" /\ pc # "crashed"

CommitCall == (\E gf \in GitFaults : CommitRun(gf)) \/ (\E gf \in GitFaults : SmokeTest(gf))

\* C7: the repository is initialized at most once, only by a call that finds
\* no repository, and stays one; the history only grows at its end, only in
\* commit_backup calls; a call that runs to its last line appends exactly one
\* commit carrying its message, whether or not the tree changed.
C7_OneInitOneCommitPerCall ==
    [][/\ repo'.inits # repo.inits =>
             ~repo.isRepo /\ repo.inits = 0 /\ repo'.inits = 1
       /\ repo.isRepo => repo'.isRepo
       /\ Len(repo'.history) >= Len(repo.history)
       /\ SubSeq(repo'.history, 1, Len(repo.history)) = repo.history
       /\ ~CommitCall => repo' = repo
       /\ CommitCall /\ commitResult' = "committed" =>
             /\ Len(repo'.history) = Len(repo.history) + 1
             /\ repo'.history[Len(repo'.history)].message = commitMsg'
       /\ CommitCall /\ commitResult' # "committed" =>
             repo'.history = repo.history]_vars

\* two commits with different messages on the same tree, after one init
C7_Witness ==
    /\ Len(repo.history) >= 2
    /\ repo.inits = 1
    /\ repo.history[1].message # repo.history[2].message
    /\ repo.history[1].tree = repo.history[2].tree

SameConfig(pair) == load(files, pair[1]).config = load(files, pair[2]).config

\* C8: whenever get_latest_backups returns two snapshots, compare_configs
\* reports "no changes" iff their config payloads are equal and differences
\* iff they differ, whatever their timestamp and device fields; so did every
\* report of this run.
C8_DiffOnlyOnConfig ==
    /\ \A D \in DeviceNames :
          \A pair \in get_latest_backups(files, D) :
              pair[1] # NoPath =>
                  LET r == compare_configs(files, D, pair)
                  IN  /\ r.kind = "no_changes" <=> SameConfig(pair)
                      /\ r.kind = "differences" <=> ~SameConfig(pair)
    /\ \A i \in 1..Len(reported) :
          reported[i].kind # "not_enough" =>
              (reported[i].kind = "no_changes"
                  <=> SameConfig(<<reported[i].latest, reported[i].previous>>))

\* a "no changes" report on two snapshots of different timestamps
C8_Witness ==
    \E i \in 1..Len(reported) :
        /\ reported[i].kind = "no_changes"
        /\ load(files, reported[i].latest).timestamp
              # load(files, reported[i].previous).timestamp

\* C9: a snapshot file once written is never written again.
C9_NeverRewritten == \A f \in files : f.nwrites = 1

\* Inventory R1 alone, compare enabled: the second run of main has ended, R1
\* was unreachable in it, and the directory holds a snapshot of an earlier
\* second.
C10_Scenario ==
    /\ inventory = <<R1>>
    /\ nruns = 2
    /\ test_file = <<>>
    /\ pc = "done"
    /\ ~args.no_compare
    /\ outcomes = <<"connect_failed">>
    /\ \E f \in files : f.data.device = R1 /\ f.data.timestamp # timestamp

\* C10 as stated: the second run writes nothing and compare_configs reports
\* "Not enough backups to compare" for R1.
C10_ReportsNotEnough ==
    C10_Scenario =>
        /\ writes = <<>>
        /\ \E i \in 1..Len(reported) :
              reported[i].device = R1 /\ reported[i].kind = "not_enough"

\* C10 amended: the second run writes nothing, its backup list is empty, so
\* the diff stage is skipped and nothing is reported for R1; the directory
\* still holds the one snapshot, too few for get_latest_backups.
C10_DiffStageSkipped ==
    C10_Scenario =>
        /\ writes = <<>>
        /\ backup_files = <<>>
        /\ reported = <<>>
        /\ SelectSeq(trace, IsDiff) = <<>>
        /\ Cardinality(files) = 1
        /\ get_latest_backups(files, R1) = {<<NoPath, NoPath>>}

====
